---- MODULE Spec2Model ----
(***************************************************************************)
(* Job scrapers: the multi-board agent (multi_board_scraper.py) with its   *)
(* source adapters, its SQLite catalog and run log, and the two adapters   *)
(* and the keyword filter of the combined scraper (combined_scraper.py).   *)
(*                                                                         *)
(* Python strings are sequences of one-character strings.  Python's None   *)
(* and a key that is absent from a JSON object are the two values None and *)
(* Missing, which are no character sequence.                               *)
(***************************************************************************)
EXTENDS Integers, Sequences, FiniteSets, TLC

\* ------------------------------------------------------------------ bounds
\* orchestration passes started in one behaviour of SpecRuns
MaxRuns == 2
\* query terms handed to one pass of SpecRuns
MaxRunQueries == 1
\* query terms handed to the one pass of Spec
MaxQueries == 2
\* raw entries all adapters together return in one pass
MaxRaw == 2
\* jobs handed to the filter stage
MaxJobs == 2
\* jobs each provider returns to scrape_all or to the standalone script
MaxFetched == 2

\* ----------------------------------------------------------------- strings
None == <<"None">>
Missing == <<"Missing">>

UpperLetters ==
  <<"A", "B", "C", "D", "E", "F", "G", "H", "I", "J", "K", "L", "M",
    "N", "O", "P", "Q", "R", "S", "T", "U", "V", "W", "X", "Y", "Z">>
LowerLetters ==
  <<"a", "b", "c", "d", "e", "f", "g", "h", "i", "j", "k", "l", "m",
    "n", "o", "p", "q", "r", "s", "t", "u", "v", "w", "x", "y", "z">>

LowerChar(c) ==
  IF \E i \in DOMAIN UpperLetters : UpperLetters[i] = c
  THEN LowerLetters[CHOOSE i \in DOMAIN UpperLetters : UpperLetters[i] = c]
  ELSE c

\* str.lower()
Lower(s) == [i \in 1..Len(s) |-> LowerChar(s[i])]

\* kw in text
Contains(text, kw) ==
  \E i \in 0..(Len(text) - Len(kw)) : SubSeq(text, i + 1, i + Len(kw)) = kw

\* f"{v}": None is formatted as the four characters of its name
Str(v) == IF v = None THEN <<"N", "o", "n", "e">> ELSE v

\* dict.get(key): an absent key reads as None
Get(v) == IF v = Missing THEN None ELSE v

\* dict.get(key, default): only an absent key reads as the default
GetOr(v, default) == IF v = Missing THEN default ELSE v

\* the truth value of a string or None
Truthy(v) == v # None /\ v # Missing /\ v # <<>>

NotSpecified == <<"N", "o", "t", " ", "s", "p", "e", "c", "i", "f", "i", "e", "d">>
Unknown == <<"U", "n", "k", "n", "o", "w", "n">>

\* hashlib.md5(s.encode()).hexdigest(), taken as collision-free
Md5(s) == <<"md5">> \o s

\* ---------------------------------------------------------------- identity
GenerateJobId_NoSource(job, source) ==
  Md5(Str(job.title) \o Str(job.company))

GenerateJobId_WithLocation(job, source) ==
  Md5(Str(job.title) \o Str(job.company) \o source \o Str(job.location))

\* _generate_job_id(job, source)
GenerateJobId(job, source) ==
  Md5(Str(job.title) \o Str(job.company) \o source)


\* --------------------------------------------------------------- providers
SourceJSearch ==
  <<"I", "n", "d", "e", "e", "d", "/", "L", "i", "n", "k", "e", "d", "I", "n",
    "/", "G", "l", "a", "s", "s", "d", "o", "o", "r", " ", "(", "J", "S", "e",
    "a", "r", "c", "h", ")">>
SourceAdzuna == <<"A", "d", "z", "u", "n", "a">>
SourceGoogle == <<"G", "o", "o", "g", "l", "e", " ", "J", "o", "b", "s">>
SourceUSAJobs == <<"U", "S", "A", "J", "o", "b", "s", ".", "g", "o", "v">>
SourceRemotive == <<"R", "e", "m", "o", "t", "i", "v", "e">>
Remote == <<"R", "e", "m", "o", "t", "e">>

\* the boards one pass calls for each query term, in the order of the calls
Adapters == <<"jsearch", "adzuna", "google", "usajobs", "remotive">>

\* data.get("jobs", [])[:50]
RemotiveLimit == 50

\* A provider's answer to one request: the request raises (timeout, transport
\* error, HTTP status, invalid JSON) or the decoded body lists raw items.  A
\* raw item gives each field as a string, as null (None) or not at all
\* (Missing).
Min(a, b) == IF a < b THEN a ELSE b

\* the value a source adapter hands back: a list, or an exception that leaves it
Returned(list) == [raised |-> FALSE, jobs |-> list]
Raised == [raised |-> TRUE, jobs |-> <<>>]

NormJSearch(item) ==
  [title |-> Get(item.title),
   company |-> Get(item.company),
   location |-> Str(GetOr(item.location, <<>>)) \o <<",", " ">>,
   salary |-> IF Truthy(item.salary) THEN item.salary ELSE NotSpecified,
   url |-> Get(item.url),
   posted |-> Get(item.posted),
   source |-> SourceJSearch]

\* what the try block of scrape_jsearch raises on
JSearchFails(resp) == resp.raises

ScrapeJSearch_Propagates(keys, job_title, resp) ==
  IF ~keys.jsearch_api_key THEN Returned(<<>>)
  ELSE IF JSearchFails(resp) THEN Raised
  ELSE Returned([i \in DOMAIN resp.items |-> NormJSearch(resp.items[i])])

\* scrape_jsearch(job_title)
ScrapeJSearch(keys, job_title, resp) ==
  IF ~keys.jsearch_api_key THEN Returned(<<>>)
  ELSE IF JSearchFails(resp) THEN Returned(<<>>)
  ELSE Returned([i \in DOMAIN resp.items |-> NormJSearch(resp.items[i])])

\* "$<min> - $<max>" of the amounts; an item's salary stands for both amounts
AdzunaSalary(s) == <<"$">> \o s \o <<" ", "-", " ", "$">> \o s

NormAdzuna(item) ==
  [title |-> Get(item.title),
   company |-> GetOr(item.company, Unknown),
   location |-> GetOr(item.location, <<>>),
   salary |-> IF Truthy(item.salary) THEN AdzunaSalary(item.salary) ELSE NotSpecified,
   url |-> Get(item.url),
   posted |-> Get(item.posted),
   source |-> SourceAdzuna]

\* item.get("company", {}).get(...) on a null company, likewise location
AdzunaItemRaises(item) == item.company = None \/ item.location = None

AdzunaFails(resp) ==
  resp.raises \/ \E i \in DOMAIN resp.items : AdzunaItemRaises(resp.items[i])

\* scrape_adzuna(job_title)
ScrapeAdzuna(keys, job_title, resp) ==
  IF ~keys.adzuna_app_id \/ ~keys.adzuna_app_key THEN Returned(<<>>)
  ELSE IF AdzunaFails(resp) THEN Returned(<<>>)
  ELSE Returned([i \in DOMAIN resp.items |-> NormAdzuna(resp.items[i])])

NormGoogle(item) ==
  [title |-> Get(item.title),
   company |-> Get(item.company),
   location |-> Get(item.location),
   salary |-> GetOr(item.salary, NotSpecified),
   url |-> IF Truthy(item.url) THEN item.url ELSE <<>>,
   posted |-> Get(item.posted),
   source |-> SourceGoogle]

GoogleFails(resp) == resp.raises

\* scrape_google_jobs(job_title)
ScrapeGoogleJobs(keys, job_title, resp) ==
  IF ~keys.serp_api_key THEN Returned(<<>>)
  ELSE IF GoogleFails(resp) THEN Returned(<<>>)
  ELSE Returned([i \in DOMAIN resp.items |-> NormGoogle(resp.items[i])])

NormUSAJobs(item) ==
  [title |-> Get(item.title),
   company |-> Get(item.company),
   location |-> Get(item.location),
   salary |-> GetOr(item.salary, NotSpecified),
   url |-> GetOr(item.url, <<>>),
   posted |-> Get(item.posted),
   source |-> SourceUSAJobs]

\* matched_job.get("PositionRemuneration", [{}])[0] on null, likewise ApplyURI
USAJobsItemRaises(item) == item.salary = None \/ item.url = None

USAJobsFails(resp) ==
  resp.raises \/ \E i \in DOMAIN resp.items : USAJobsItemRaises(resp.items[i])

ScrapeUSAJobs_Propagates(keys, job_title, resp) ==
  IF USAJobsFails(resp) THEN Raised
  ELSE Returned([i \in DOMAIN resp.items |-> NormUSAJobs(resp.items[i])])

\* scrape_usa_jobs(job_title)
ScrapeUSAJobs(keys, job_title, resp) ==
  IF USAJobsFails(resp) THEN Returned(<<>>)
  ELSE Returned([i \in DOMAIN resp.items |-> NormUSAJobs(resp.items[i])])

NormRemotive(item) ==
  [title |-> Get(item.title),
   company |-> Get(item.company),
   location |-> Remote,
   salary |-> GetOr(item.salary, NotSpecified),
   url |-> Get(item.url),
   posted |-> Get(item.posted),
   source |-> SourceRemotive]

\* item.get("title", "").lower() on a null title
RemotiveItemRaises(item) == item.title = None

RemotiveMatches(job_title, item) ==
  Contains(Lower(GetOr(item.title, <<>>)), Lower(job_title))

RemotiveFirst(resp) == SubSeq(resp.items, 1, Min(RemotiveLimit, Len(resp.items)))

\* the items whose title contains the query term, mapped
RemotiveJobs(job_title, items) ==
  LET hits == SelectSeq(items, LAMBDA it : RemotiveMatches(job_title, it))
  IN [i \in DOMAIN hits |-> NormRemotive(hits[i])]

RemotiveFails(resp) ==
  resp.raises
    \/ \E i \in DOMAIN RemotiveFirst(resp) : RemotiveItemRaises(RemotiveFirst(resp)[i])

ScrapeRemotive_Propagates(keys, job_title, resp) ==
  IF RemotiveFails(resp) THEN Raised
  ELSE Returned(RemotiveJobs(job_title, RemotiveFirst(resp)))

\* scrape_remotive(job_title)
ScrapeRemotive(keys, job_title, resp) ==
  IF RemotiveFails(resp) THEN Returned(<<>>)
  ELSE Returned(RemotiveJobs(job_title, RemotiveFirst(resp)))

Scrape(a, keys, job_title, resp) ==
  CASE a = "jsearch" -> ScrapeJSearch(keys, job_title, resp)
    [] a = "adzuna" -> ScrapeAdzuna(keys, job_title, resp)
    [] a = "google" -> ScrapeGoogleJobs(keys, job_title, resp)
    [] a = "usajobs" -> ScrapeUSAJobs(keys, job_title, resp)
    [] a = "remotive" -> ScrapeRemotive(keys, job_title, resp)

\* the credentials the adapter reads before it sends anything
HasCredentials(a, keys) ==
  CASE a = "jsearch" -> keys.jsearch_api_key
    [] a = "adzuna" -> keys.adzuna_app_id /\ keys.adzuna_app_key
    [] a = "google" -> keys.serp_api_key
    [] OTHER -> TRUE

Fails(a, resp) ==
  CASE a = "jsearch" -> JSearchFails(resp)
    [] a = "adzuna" -> AdzunaFails(resp)
    [] a = "google" -> GoogleFails(resp)
    [] a = "usajobs" -> USAJobsFails(resp)
    [] a = "remotive" -> RemotiveFails(resp)

\* how the call ended inside the adapter; the caller sees only the list
Outcome(a, keys, resp) ==
  IF ~HasCredentials(a, keys) THEN "skipped"
  ELSE IF Fails(a, resp) THEN "error"
  ELSE "ok"

\* ------------------------------------------ combined_scraper.py: adapters
SourceMuse == <<"T", "h", "e", " ", "M", "u", "s", "e">>

CombinedAdapters == {"muse", "combined_adzuna"}

\* [:500]
DescriptionLimit == 500

\* for page in range(2), for page in range(1, 3)
Pages == 2

\* the entries of the list searches of scrape_muse and of scrape_adzuna
MuseSearches == 3
CombinedAdzunaSearches == 4

Take(s, n) == SubSeq(s, 1, Min(n, Len(s)))

\* the dict scrape_muse builds of one job; its id is left out
NormMuse(item) ==
  [title |-> GetOr(item.title, <<>>),
   company |-> GetOr(item.company, Unknown),
   location |-> IF Truthy(item.location) THEN item.location ELSE NotSpecified,
   posted_date |-> GetOr(item.posted, <<>>),
   url |-> GetOr(item.url, <<>>),
   description |-> Take(GetOr(item.description, <<>>), DescriptionLimit),
   source |-> SourceMuse]

\* company.get, the loop over locations, refs.get and contents[:500] on null
MuseItemRaises(item) ==
  item.company = None \/ item.location = None \/ item.url = None
    \/ item.description = None

\* the dict scrape_adzuna of the combined scraper builds; its id is left out
NormCombinedAdzuna(item) ==
  [title |-> GetOr(item.title, <<>>),
   company |-> GetOr(item.company, Unknown),
   location |-> GetOr(item.location, NotSpecified),
   salary |-> IF Truthy(item.salary) THEN AdzunaSalary(item.salary) ELSE None,
   posted_date |-> GetOr(item.posted, <<>>),
   url |-> GetOr(item.url, <<>>),
   description |-> Take(GetOr(item.description, <<>>), DescriptionLimit),
   source |-> SourceAdzuna]

\* location.get, company.get and description[:500] on null
CombinedAdzunaItemRaises(item) ==
  item.company = None \/ item.location = None \/ item.description = None

ItemRaises(a, item) ==
  IF a = "muse" THEN MuseItemRaises(item) ELSE CombinedAdzunaItemRaises(item)

NormItem(a, item) ==
  IF a = "muse" THEN NormMuse(item) ELSE NormCombinedAdzuna(item)

Searches(a) == IF a = "muse" THEN MuseSearches ELSE CombinedAdzunaSearches

\* all_jobs.append(parsed) for each job of the page, up to the first that raises
RECURSIVE Parsed(_, _)
Parsed(a, items) ==
  IF items = <<>> THEN <<>>
  ELSE IF ItemRaises(a, Head(items)) THEN <<>>
  ELSE <<NormItem(a, Head(items))>> \o Parsed(a, Tail(items))

\* the try block of one page raises
PageRaises(a, resp) ==
  resp.raises \/ \E i \in DOMAIN resp.items : ItemRaises(a, resp.items[i])

\* the two breaks of the page loop: no results, or an exception
PageBreaks(a, resp) == PageRaises(a, resp) \/ resp.items = <<>>

PageJobs(a, resp) == IF resp.raises THEN <<>> ELSE Parsed(a, resp.items)

\* the end of one iteration of "for page in range": the next page, the next
\* search, or "return all_jobs"
NextPage(a, f, stop) ==
  IF ~stop /\ f.page < Pages THEN [f EXCEPT !.page = f.page + 1]
  ELSE IF f.search < Searches(a)
       THEN [f EXCEPT !.search = f.search + 1, !.page = 1]
       ELSE [f EXCEPT !.pc = "done", !.ret = Returned(f.all_jobs)]

\* ------------------------------------------------------------------ inputs
\* the environment the agent is constructed in: every credential is set, the
\* Adzuna key alone is not, or none is
Keys(jsearch, serp, app_id, app_key) ==
  [jsearch_api_key |-> jsearch, serp_api_key |-> serp,
   adzuna_app_id |-> app_id, adzuna_app_key |-> app_key]

KeyConfigs ==
  {Keys(TRUE, TRUE, TRUE, TRUE), Keys(TRUE, TRUE, TRUE, FALSE),
   Keys(FALSE, FALSE, FALSE, FALSE)}

\* the boards that are out of service: every request to them raises.  A request
\* that raises and a request answered with no items leave the agent in the same
\* state, so a board that fails now and then adds no state to the ones below.
Outages == {{}, {"jsearch"}, {"jsearch", "adzuna", "google", "usajobs", "remotive"}}

RawItem(title, company, location) ==
  [title |-> title, company |-> company, location |-> location,
   salary |-> Missing, posted |-> Missing, url |-> <<"u">>]

\* the postings the boards hold: one posting, the same posting moved to another
\* town, and the same posting with its title capitalised
RawPool ==
  {RawItem(<<"a">>, <<"c">>, <<"x">>),
   RawItem(<<"a">>, <<"c">>, <<"y">>),
   RawItem(<<"A">>, <<"c">>, <<"x">>)}

Queries == {<<"a">>, <<"b">>}

SeqsUpTo(S, n) == UNION {[1..k -> S] : k \in 0..n}

\* the answers board a can give to one request: up to n of the postings held
Responses(a, out, held, n) ==
  IF a \in out THEN {[raises |-> TRUE, items |-> <<>>]}
  ELSE {[raises |-> FALSE, items |-> items] : items \in SeqsUpTo(held, n)}

\* ------------------------------------------------------------------- state
VARIABLES
  keys,          \* credentials read from the environment in __init__
  down,          \* the boards that are out of service
  postings,      \* the postings the boards hold
  jobs,          \* table jobs: a set of rows
  scrape_runs,   \* table scrape_runs: rows in insertion order
  now,           \* the clock, one tick per pass
  run,           \* per agent: the frame of run_daily_scrape
  hist,          \* per agent: what the current pass has seen (history)
  last_raw,      \* the entries the last completed pass fetched (history)
  gid,           \* two calls of _generate_job_id: arguments and results
  flt,           \* the frame of filter_and_save
  files,         \* the two files filter_and_save writes
  scrape,        \* one call of a source adapter: arguments and result
  dedupe         \* the frame of scrape_all, or of the standalone script

vars == <<keys, down, postings, jobs, scrape_runs, now, run, hist, last_raw, gid, flt, files, scrape,
         dedupe>>

agent_vars == <<keys, down, postings, jobs, scrape_runs, now, run, hist, last_raw>>

Agents == {"agent1", "agent2"}

IdleFrame ==
  [pc |-> "idle", job_titles |-> <<>>, t |-> 0, all_jobs |-> <<>>, j |-> 0,
   job_id |-> <<>>, all_new_jobs |-> <<>>, total_jobs_found |-> 0,
   sources_used |-> {}, summary |-> <<>>]

NoHist ==
  [start_jobs |-> {}, start_runs |-> <<>>, job_titles |-> <<>>, raw |-> <<>>,
   calls |-> <<>>, store_failed |-> FALSE]

NoCall == [pc |-> "none"]

NoFilter == [pc |-> "none"]

NoFiles == [dated |-> None, daily |-> None]

NoScrape == [pc |-> "none"]

NoDedupe == [pc |-> "none"]

InitStore ==
  /\ jobs = {}
  /\ scrape_runs = <<>>
  /\ now = 0
  /\ run = [p \in Agents |-> IdleFrame]
  /\ hist = [p \in Agents |-> NoHist]
  /\ last_raw = [valid |-> FALSE, raw |-> <<>>]

InitAgent ==
  /\ keys \in KeyConfigs
  /\ down \in Outages
  /\ postings = RawPool
  /\ InitStore
  /\ gid = NoCall
  /\ flt = NoFilter
  /\ files = NoFiles
  /\ dedupe = NoDedupe
  /\ scrape = NoScrape

\* ---------------------------------------------------------------- the store
JobIds(table) == {r.job_id : r \in table}

IsDuplicate_Never(table, job_id) == FALSE

\* is_duplicate(job_id): SELECT 1 FROM jobs WHERE job_id = ?
IsDuplicate(table, job_id) == \E r \in table : r.job_id = job_id

JobRow(job, search_query, at) ==
  [job_id |-> GenerateJobId(job, job.source),
   title |-> job.title, company |-> job.company, location |-> job.location,
   salary |-> job.salary, job_type |-> <<>>, posted_date |-> job.posted,
   url |-> job.url, source |-> job.source, description |-> <<>>,
   scraped_at |-> at, search_query |-> search_query]

InsertOrIgnore_Replace(table, row) ==
  {r \in table : r.job_id # row.job_id} \cup {row}

InsertOrIgnore_NoCommit(table, row) == table

\* INSERT OR IGNORE INTO jobs: job_id is the primary key
InsertOrIgnore(table, row) ==
  IF \E r \in table : r.job_id = row.job_id THEN table ELSE table \cup {row}

RunRow_NewSources(table, at, f) ==
  [run_id |-> Len(table) + 1, run_date |-> at,
   jobs_found |-> f.total_jobs_found, new_jobs |-> Len(f.all_new_jobs),
   queries_processed |-> Len(f.job_titles),
   sources_scraped |-> {f.all_new_jobs[i].source : i \in DOMAIN f.all_new_jobs}]

\* the values of the INSERT INTO scrape_runs
RunRow(table, at, f) ==
  [run_id |-> Len(table) + 1, run_date |-> at,
   jobs_found |-> f.total_jobs_found, new_jobs |-> Len(f.all_new_jobs),
   queries_processed |-> Len(f.job_titles), sources_scraped |-> f.sources_used]

InsertRun_Replace(table, row) == <<row>>

\* INSERT INTO scrape_runs: run_id autoincrements
InsertRun(table, row) == Append(table, row)

Summary(at, f) ==
  [run_date |-> at, total_jobs_found |-> f.total_jobs_found,
   new_jobs_count |-> Len(f.all_new_jobs), new_jobs |-> f.all_new_jobs,
   queries_processed |-> Len(f.job_titles), sources_used |-> f.sources_used]

\* --------------------------------------------------------- run_daily_scrape
Upd(p, f) == run' = [run EXCEPT ![p] = f]

Note(p, h) == hist' = [hist EXCEPT ![p] = h]

\* the end of one iteration of "for title in job_titles"
NextTitle(f) ==
  IF f.t < Len(f.job_titles)
  THEN [f EXCEPT !.pc = "jsearch", !.t = f.t + 1, !.all_jobs = <<>>, !.j = 0]
  ELSE [f EXCEPT !.pc = "finalize"]

\* the end of one iteration of "for job in all_jobs"
NextJob(f) ==
  IF f.j < Len(f.all_jobs)
  THEN [f EXCEPT !.pc = "check", !.j = f.j + 1]
  ELSE NextTitle(f)

\* after the last adapter: total_jobs_found += len(all_jobs), then the job loop
Collected(f) ==
  LET g == [f EXCEPT !.total_jobs_found = f.total_jobs_found + Len(f.all_jobs)]
  IN IF Len(g.all_jobs) = 0 THEN NextTitle(g)
     ELSE [g EXCEPT !.pc = "check", !.j = 1]

StartRun(p, passes, terms) ==
  /\ run[p].pc = "idle"
  /\ now < passes
  /\ \E job_titles \in SeqsUpTo(Queries, terms) :
       /\ Upd(p, [IdleFrame EXCEPT
                    !.pc = IF job_titles = <<>> THEN "finalize" ELSE "jsearch",
                    !.job_titles = job_titles,
                    !.t = IF job_titles = <<>> THEN 0 ELSE 1])
       /\ Note(p, [NoHist EXCEPT !.start_jobs = jobs, !.start_runs = scrape_runs,
                                   !.job_titles = job_titles])
  /\ now' = now + 1
  /\ UNCHANGED <<keys, down, postings, jobs, scrape_runs, last_raw, gid, flt, files, scrape, dedupe>>

\* what follows the call of board a: the next board, or the job loop
After(a, f) ==
  CASE a = "jsearch" -> [f EXCEPT !.pc = "adzuna"]
    [] a = "adzuna" -> [f EXCEPT !.pc = "google"]
    [] a = "google" -> [f EXCEPT !.pc = "usajobs"]
    [] a = "usajobs" -> [f EXCEPT !.pc = "remotive"]
    [] a = "remotive" -> Collected(f)

\* all_jobs.extend(self.scrape_<a>(title))
Call(p, a) ==
  LET f == run[p]
      h == hist[p]
      fetched == f.total_jobs_found + Len(f.all_jobs)
  IN /\ f.pc = a
     /\ \E resp \in Responses(a, down, postings, MaxRaw - fetched) :
          LET res == Scrape(a, keys, f.job_titles[f.t], resp)
          IN /\ Upd(p, IF res.raised THEN [f EXCEPT !.pc = "crashed"]
                       ELSE After(a, [f EXCEPT !.all_jobs = f.all_jobs \o res.jobs]))
             /\ Note(p, [h EXCEPT !.raw = h.raw \o res.jobs,
                                   !.calls = Append(h.calls, <<f.t, a>>)])
     /\ UNCHANGED <<keys, down, postings, jobs, scrape_runs, now, last_raw, gid, flt, files, scrape, dedupe>>

CallJSearch(p) == Call(p, "jsearch")

CallAdzuna(p) == Call(p, "adzuna")

CallGoogleJobs(p) == Call(p, "google")

CallUSAJobs(p) == Call(p, "usajobs")

CallRemotive(p) == Call(p, "remotive")

\* job_id = ...; sources_used.add(...); if not self.is_duplicate(job_id)
CheckJob(p) ==
  LET f == run[p]
      job == f.all_jobs[f.j]
      job_id == GenerateJobId(job, job.source)
      g == [f EXCEPT !.job_id = job_id,
                     !.sources_used = f.sources_used \cup {job.source}]
  IN /\ f.pc = "check"
     /\ Upd(p, IF IsDuplicate(jobs, job_id) THEN NextJob(g)
               ELSE [g EXCEPT !.pc = "save"])
     /\ UNCHANGED <<keys, down, postings, jobs, scrape_runs, now, hist, last_raw, gid, flt, files, scrape, dedupe>>

\* self.save_job(job, title); all_new_jobs.append(job)
SaveJob(p) ==
  LET f == run[p]
      job == f.all_jobs[f.j]
  IN /\ f.pc = "save"
     /\ jobs' = InsertOrIgnore(jobs, JobRow(job, f.job_titles[f.t], now))
     /\ Upd(p, NextJob([f EXCEPT !.all_new_jobs = Append(f.all_new_jobs, job)]))
     /\ UNCHANGED <<keys, down, postings, scrape_runs, now, hist, last_raw, gid, flt, files, scrape, dedupe>>

\* the insert into scrape_runs and the summary handed to the caller
Finalize(p) ==
  LET f == run[p]
  IN /\ f.pc = "finalize"
     /\ scrape_runs' = InsertRun(scrape_runs, RunRow(scrape_runs, now, f))
     /\ Upd(p, [IdleFrame EXCEPT !.pc = "done", !.summary = Summary(now, f)])
     /\ UNCHANGED <<keys, down, postings, jobs, now, hist, last_raw, gid, flt, files, scrape, dedupe>>

\* the caller has the summary; the frame is gone
Return(p) ==
  /\ run[p].pc = "done"
  /\ Upd(p, IdleFrame)
  /\ Note(p, NoHist)
  /\ last_raw' = [valid |-> TRUE, raw |-> hist[p].raw]
  /\ UNCHANGED <<keys, down, postings, jobs, scrape_runs, now, gid, flt, files, scrape, dedupe>>

AgentNext(p, passes, terms) ==
  \/ StartRun(p, passes, terms)
  \/ CallJSearch(p)
  \/ CallAdzuna(p)
  \/ CallGoogleJobs(p)
  \/ CallUSAJobs(p)
  \/ CallRemotive(p)
  \/ CheckJob(p)
  \/ SaveJob(p)
  \/ Finalize(p)
  \/ Return(p)

\* one agent, one pass over up to MaxQueries terms, in every environment
Init == InitAgent

Next == AgentNext("agent1", 1, MaxQueries)

Spec == Init /\ [][Next]_vars

\* one agent, up to MaxRuns passes one after the other, every board in service
InitRuns ==
  /\ InitAgent
  /\ keys = Keys(TRUE, TRUE, TRUE, TRUE)
  /\ down = {}

NextRuns == AgentNext("agent1", MaxRuns, MaxRunQueries)

SpecRuns == InitRuns /\ [][NextRuns]_vars

\* ------------------------------------------- boards with incomplete entries
\* entries without title and company, with both empty, with both null, and a
\* complete one
BlankPool ==
  {RawItem(Missing, Missing, <<"x">>),
   RawItem(<<>>, <<>>, <<"x">>),
   RawItem(None, None, <<"x">>),
   RawItem(<<"a">>, <<"c">>, <<"x">>)}

InitBlank ==
  /\ keys = Keys(TRUE, TRUE, TRUE, TRUE)
  /\ down = {}
  /\ postings = BlankPool
  /\ InitStore
  /\ gid = NoCall
  /\ flt = NoFilter
  /\ files = NoFiles
  /\ dedupe = NoDedupe
  /\ scrape = NoScrape

\* one pass over boards that hold incomplete entries
SpecBlank == InitBlank /\ [][Next]_vars

\* ------------------------------------------------- a store that can fail
\* Any sqlite3 call of a pass can raise (database locked, disk full, file not
\* writable).  run_daily_scrape catches nothing: the statement writes nothing
\* and the exception leaves the pass.

\* self.is_duplicate(job_id) raises
CheckJobFails(p) ==
  LET f == run[p]
      job == f.all_jobs[f.j]
  IN /\ f.pc = "check"
     /\ Upd(p, [f EXCEPT !.pc = "crashed",
                         !.job_id = GenerateJobId(job, job.source),
                         !.sources_used = f.sources_used \cup {job.source}])
     /\ Note(p, [hist[p] EXCEPT !.store_failed = TRUE])
     /\ UNCHANGED <<keys, down, postings, jobs, scrape_runs, now, last_raw, gid, flt, files, scrape, dedupe>>

SaveJobFails_Caught(p) ==
  /\ run[p].pc = "save"
  /\ Upd(p, NextJob(run[p]))
  /\ Note(p, [hist[p] EXCEPT !.store_failed = TRUE])
  /\ UNCHANGED <<keys, down, postings, jobs, scrape_runs, now, last_raw, gid, flt, files, scrape, dedupe>>

\* self.save_job(job, title) raises in connect, execute or commit
SaveJobFails(p) ==
  /\ run[p].pc = "save"
  /\ Upd(p, [run[p] EXCEPT !.pc = "crashed"])
  /\ Note(p, [hist[p] EXCEPT !.store_failed = TRUE])
  /\ UNCHANGED <<keys, down, postings, jobs, scrape_runs, now, last_raw, gid, flt, files, scrape, dedupe>>

\* the insert into scrape_runs raises in connect, execute or commit
FinalizeFails(p) ==
  /\ run[p].pc = "finalize"
  /\ Upd(p, [run[p] EXCEPT !.pc = "crashed"])
  /\ Note(p, [hist[p] EXCEPT !.store_failed = TRUE])
  /\ UNCHANGED <<keys, down, postings, jobs, scrape_runs, now, last_raw, gid, flt, files, scrape, dedupe>>

\* the exception reaches the caller of run_daily_scrape, which gets no
\* summary; the agent can be run again
Abort(p) ==
  /\ run[p].pc = "crashed"
  /\ Upd(p, IdleFrame)
  /\ Note(p, NoHist)
  /\ UNCHANGED <<keys, down, postings, jobs, scrape_runs, now, last_raw, gid, flt, files, scrape, dedupe>>

NextFail ==
  \/ AgentNext("agent1", MaxRuns, MaxRunQueries)
  \/ CheckJobFails("agent1")
  \/ SaveJobFails("agent1")
  \/ FinalizeFails("agent1")
  \/ Abort("agent1")

\* passes one after the other over a store whose calls can fail
SpecFail == InitRuns /\ [][NextFail]_vars

\* --------------------------------------------------- two passes at a time
\* Two runs of the agent on one jobs.db, their statements interleaved: each
\* sqlite3 call is one step and nothing in the code orders the calls of one run
\* against those of the other.  No API key is set, so USAJobs and Remotive are
\* the boards that answer.
InitConc ==
  /\ keys = Keys(FALSE, FALSE, FALSE, FALSE)
  /\ down = {}
  /\ postings = RawPool
  /\ InitStore
  /\ gid = NoCall
  /\ flt = NoFilter
  /\ files = NoFiles
  /\ dedupe = NoDedupe
  /\ scrape = NoScrape

NextConc ==
  \/ AgentNext("agent1", MaxRuns, MaxRunQueries)
  \/ AgentNext("agent2", MaxRuns, MaxRunQueries)

SpecConc == InitConc /\ [][NextConc]_vars

\* ------------------------------------------------- _generate_job_id, alone
\* a job record as the adapters build it; the fields beside title and company
\* are those of one posting, or one of them is changed
IdJob(title, company, source, drift) ==
  [title |-> title, company |-> company,
   location |-> IF drift = "location" THEN <<"y">> ELSE <<"x">>,
   salary |-> IF drift = "salary" THEN <<"9">> ELSE NotSpecified,
   url |-> IF drift = "url" THEN <<"v">> ELSE <<"u">>,
   posted |-> IF drift = "posted" THEN <<"2">> ELSE None,
   source |-> source]

IdTitles == {None, <<>>, <<"a">>, <<"A">>, <<"a", "b">>}

IdCompanies == {None, <<>>, <<"c">>, <<"b", "c">>}

IdSources == {SourceAdzuna, Lower(SourceAdzuna), SourceGoogle}

Drifts == {"none", "location", "salary", "url", "posted"}

IdJobs(source) ==
  {IdJob(t, c, source, d) : t \in IdTitles, c \in IdCompanies, d \in Drifts}

InitId ==
  /\ keys = Keys(TRUE, TRUE, TRUE, TRUE)
  /\ down = {}
  /\ postings = RawPool
  /\ InitStore
  /\ flt = NoFilter
  /\ files = NoFiles
  /\ dedupe = NoDedupe
  /\ scrape = NoScrape
  /\ \E s1 \in IdSources, s2 \in IdSources :
       \E j1 \in IdJobs(s1), j2 \in IdJobs(s2) :
         gid = [pc |-> "call", job1 |-> j1, source1 |-> s1,
                job2 |-> j2, source2 |-> s2, id1 |-> <<>>, id2 |-> <<>>]

\* job_id = self._generate_job_id(job, job.get("source", "unknown")), twice
GenerateJobIds ==
  /\ gid.pc = "call"
  /\ gid' = [gid EXCEPT !.pc = "done",
                        !.id1 = GenerateJobId(gid.job1, gid.source1),
                        !.id2 = GenerateJobId(gid.job2, gid.source2)]
  /\ UNCHANGED <<agent_vars, flt, files, scrape, dedupe>>

NextId == GenerateJobIds

SpecId == InitId /\ [][NextId]_vars

\* -------------------------------------------------------- filter_and_save
include_keywords ==
  <<<<"p", "r", "o", "d", "u", "c", "t", " ", "m", "a", "n", "a", "g", "e", "r">>,
    <<"p", "r", "o", "d", "u", "c", "t", " ", "m", "a", "n", "a", "g", "e", "m", "e", "n", "t">>,
    <<"p", "m">>,
    <<"r", "o", "a", "d", "m", "a", "p">>,
    <<"p", "l", "a", "t", "f", "o", "r", "m">>,
    <<"t", "e", "c", "h", "n", "i", "c", "a", "l", " ", "p", "r", "o", "d", "u", "c", "t">>>>

exclude_keywords ==
  <<<<"j", "u", "n", "i", "o", "r">>,
    <<"e", "n", "t", "r", "y", " ", "l", "e", "v", "e", "l">>,
    <<"i", "n", "t", "e", "r", "n">>,
    <<"m", "a", "r", "k", "e", "t", "i", "n", "g", " ", "p", "r", "o", "d", "u", "c", "t">>,
    <<"s", "a", "l", "e", "s">>>>

\* text = f"{job['title']} {job['description']}".lower()
FilterText(job) == Lower(Str(job.title) \o <<" ">> \o Str(job.description))

\* any(kw.lower() in text for kw in keywords)
AnyKeyword(keywords, text) ==
  \E k \in DOMAIN keywords : Contains(text, Lower(keywords[k]))

Keep_IncludeOnly(job) == AnyKeyword(include_keywords, FilterText(job))

\* has_include and not has_exclude
Keep(job) ==
  LET text == FilterText(job)
      has_include == AnyKeyword(include_keywords, text)
      has_exclude == AnyKeyword(exclude_keywords, text)
  IN has_include /\ ~has_exclude

Collect_Front(filtered, job) == <<job>> \o filtered

\* filtered.append(job)
Collect(filtered, job) == Append(filtered, job)

JuniorProductManager ==
  <<"J", "u", "n", "i", "o", "r", " ", "P", "r", "o", "d", "u", "c", "t", " ",
    "M", "a", "n", "a", "g", "e", "r">>

FilterTitles ==
  {JuniorProductManager,
   <<"P", "r", "o", "d", "u", "c", "t", " ", "M", "a", "n", "a", "g", "e", "r">>,
   <<"S", "e", "n", "i", "o", "r", " ", "P", "M">>,
   <<"S", "a", "l", "e", "s", " ", "E", "n", "g", "i", "n", "e", "e", "r">>,
   <<"E", "n", "g", "i", "n", "e", "e", "r">>}

FilterDescriptions ==
  {<<>>,
   <<"R", "o", "a", "d", "m", "a", "p", " ", "o", "w", "n", "e", "r">>,
   <<"I", "N", "T", "E", "R", "N">>}

\* the jobs scrape_all hands over: dicts with a title and a description
FilterJobs ==
  {[title |-> t, description |-> d, company |-> <<"c">>,
    source |-> SourceAdzuna] : t \in FilterTitles, d \in FilterDescriptions}

InitFilter ==
  /\ keys = Keys(TRUE, TRUE, TRUE, TRUE)
  /\ down = {}
  /\ postings = RawPool
  /\ InitStore
  /\ gid = NoCall
  /\ files = NoFiles
  /\ dedupe = NoDedupe
  /\ scrape = NoScrape
  /\ \E input \in SeqsUpTo(FilterJobs, MaxJobs) :
       flt = [pc |-> "loop", given |-> input, jobs |-> input, i |-> 1,
              filtered |-> <<>>, ret |-> None]

\* one iteration of "for job in jobs"
FilterStep ==
  /\ flt.pc = "loop"
  /\ flt.i <= Len(flt.jobs)
  /\ flt' = [flt EXCEPT
       !.filtered = IF Keep(flt.jobs[flt.i])
                    THEN Collect(flt.filtered, flt.jobs[flt.i])
                    ELSE flt.filtered,
       !.i = flt.i + 1]
  /\ UNCHANGED <<agent_vars, gid, files, scrape, dedupe>>

\* json.dump(filtered, f) into both files; return filtered
FilterSave ==
  /\ flt.pc = "loop"
  /\ flt.i > Len(flt.jobs)
  /\ files' = [dated |-> flt.filtered, daily |-> flt.filtered]
  /\ flt' = [flt EXCEPT !.pc = "done", !.ret = flt.filtered]
  /\ UNCHANGED <<agent_vars, gid, scrape, dedupe>>

NextFilter == FilterStep \/ FilterSave

SpecFilter == InitFilter /\ [][NextFilter]_vars

\* ------------------------------------------------ the source adapters, alone
\* a raw entry with every field the adapters read
Raw(title, company, location, salary, posted, url, description) ==
  [title |-> title, company |-> company, location |-> location,
   salary |-> salary, posted |-> posted, url |-> url,
   description |-> description]

\* a complete entry, one without salary and posted date, one where both are
\* null, one with a null company and one with a null title
ScrapePool ==
  {Raw(<<"a">>, <<"c">>, <<"x">>, <<"9">>, <<"2">>, <<"u">>, <<"d">>),
   Raw(<<"a">>, <<"c">>, <<"x">>, Missing, Missing, <<"u">>, <<"d">>),
   Raw(<<"a">>, <<"c">>, <<"x">>, None, None, <<"u">>, <<"d">>),
   Raw(<<"a">>, None, <<"x">>, Missing, Missing, <<"u">>, <<"d">>),
   Raw(None, <<"c">>, <<"x">>, Missing, Missing, <<"u">>, <<"d">>)}

\* a request raises, or is answered with up to n of the entries held
AnyResponse(held, n) ==
  Responses("board", {"board"}, held, n) \cup Responses("board", {}, held, n)

\* the frame of one adapter call; raw and failed are history: the entries
\* received and whether a try block raised
ScrapeFrame(a, job_title, resp) ==
  [pc |-> "call", adapter |-> a, job_title |-> job_title, resp |-> resp,
   search |-> 0, page |-> 0, all_jobs |-> <<>>, raw |-> <<>>,
   failed |-> FALSE, ret |-> None]

InitScrape ==
  /\ keys \in KeyConfigs
  /\ down = {}
  /\ postings = ScrapePool
  /\ InitStore
  /\ gid = NoCall
  /\ flt = NoFilter
  /\ files = NoFiles
  /\ dedupe = NoDedupe
  /\ \/ \E k \in DOMAIN Adapters, q \in Queries :
          \E resp \in AnyResponse(ScrapePool, MaxRaw) :
            scrape = ScrapeFrame(Adapters[k], q, resp)
     \/ \E a \in CombinedAdapters : scrape = ScrapeFrame(a, <<>>, None)

\* self.scrape_<board>(title) of the multi-board agent, from call to return
ScrapeBoard ==
  LET a == scrape.adapter
      sent == HasCredentials(a, keys)
  IN /\ scrape.pc = "call"
     /\ \E k \in DOMAIN Adapters : a = Adapters[k]
     /\ scrape' = [scrape EXCEPT
          !.pc = "done",
          !.ret = Scrape(a, keys, scrape.job_title, scrape.resp),
          !.raw = IF sent THEN scrape.resp.items ELSE <<>>,
          !.failed = sent /\ Fails(a, scrape.resp)]
     /\ UNCHANGED <<agent_vars, gid, flt, files, dedupe>>

\* the head of scrape_muse and of scrape_adzuna of the combined scraper: the
\* credentials check of the latter, all_jobs = [], the list of searches
CombinedStart(a) ==
  /\ scrape.pc = "call"
  /\ scrape.adapter = a
  /\ scrape' =
       IF a = "combined_adzuna" /\ ~(keys.adzuna_app_id /\ keys.adzuna_app_key)
       THEN [scrape EXCEPT !.pc = "done", !.ret = Returned(<<>>)]
       ELSE [scrape EXCEPT !.pc = "page", !.search = 1, !.page = 1]
  /\ UNCHANGED <<agent_vars, gid, flt, files, dedupe>>

\* one iteration of "for page in range": the request and the job loop
CombinedPage(a) ==
  /\ scrape.pc = "page"
  /\ scrape.adapter = a
  /\ \E resp \in AnyResponse(postings, MaxRaw - Len(scrape.raw)) :
       scrape' = NextPage(a, [scrape EXCEPT
                                !.all_jobs = scrape.all_jobs \o PageJobs(a, resp),
                                !.raw = scrape.raw \o resp.items,
                                !.failed = scrape.failed \/ PageRaises(a, resp)],
                          PageBreaks(a, resp))
  /\ UNCHANGED <<agent_vars, gid, flt, files, dedupe>>

CombinedScrapeMuse == CombinedStart("muse") \/ CombinedPage("muse")

CombinedScrapeAdzuna ==
  CombinedStart("combined_adzuna") \/ CombinedPage("combined_adzuna")

NextScrape == ScrapeBoard \/ CombinedScrapeMuse \/ CombinedScrapeAdzuna

SpecScrape == InitScrape /\ [][NextScrape]_vars

\* ------------------------- scrape_all and the standalone script: the dedup
\* [:300] of job_scraper.py
ScriptDescriptionLimit == 300

\* the dict job_scraper.py appends for an Adzuna job
NormScriptAdzuna(item) ==
  [title |-> GetOr(item.title, <<>>),
   company |-> GetOr(item.company, Unknown),
   location |-> GetOr(item.location, NotSpecified),
   salary |-> IF Truthy(item.salary) THEN AdzunaSalary(item.salary) ELSE None,
   url |-> GetOr(item.url, <<>>),
   description |-> Take(GetOr(item.description, <<>>), ScriptDescriptionLimit),
   source |-> SourceAdzuna]

\* the dict job_scraper.py appends for a job of The Muse
NormScriptMuse(item) ==
  [title |-> GetOr(item.title, <<>>),
   company |-> GetOr(item.company, Unknown),
   location |-> IF Truthy(item.location) THEN item.location ELSE Remote,
   salary |-> None,
   url |-> GetOr(item.url, <<>>),
   description |-> Take(GetOr(item.description, <<>>), ScriptDescriptionLimit),
   source |-> SourceMuse]

\* the postings the two providers hold: one posting, the same posting in
\* capitals at another place, another posting, and one whose title is null
DedupPool ==
  {Raw(<<"a">>, <<"c">>, <<"x">>, Missing, Missing, <<"u">>, <<"d">>),
   Raw(<<"A">>, <<"c">>, <<"y">>, Missing, Missing, <<"u">>, <<"d">>),
   Raw(<<"b">>, <<"c">>, <<"x">>, Missing, Missing, <<"u">>, <<"d">>),
   Raw(None, <<"c">>, <<"x">>, Missing, Missing, <<"u">>, <<"d">>)}

DedupVariants == {"scrape_all", "script"}

\* the jobs The Muse and Adzuna can give to scrape_all and to the script
MuseJobs(variant) ==
  IF variant = "scrape_all" THEN {NormMuse(it) : it \in DedupPool}
  ELSE {NormScriptMuse(it) : it \in DedupPool}

AdzunaJobs(variant) ==
  IF variant = "scrape_all" THEN {NormCombinedAdzuna(it) : it \in DedupPool}
  ELSE {NormScriptAdzuna(it) : it \in DedupPool}

\* without both Adzuna credentials no Adzuna job is fetched
AdzunaLists(variant, creds) ==
  IF creds.adzuna_app_id /\ creds.adzuna_app_key
  THEN SeqsUpTo(AdzunaJobs(variant), MaxFetched)
  ELSE {<<>>}

DedupKey_WithSource(job) ==
  Lower(Str(job.title) \o <<"_">> \o Str(job.company) \o <<"_">> \o job.source)

\* key = f"{job['title']}_{job['company']}".lower()
DedupKey(job) == Lower(Str(job.title) \o <<"_">> \o Str(job.company))

\* key not in unique: unique is a dict, here its items in insertion order
InUnique(unique, key) == \E k \in DOMAIN unique : unique[k].key = key

\* if key not in unique: unique[key] = job
Remember(unique, job) ==
  IF InUnique(unique, DedupKey(job)) THEN unique
  ELSE Append(unique, [key |-> DedupKey(job), job |-> job])

\* list(unique.values())
Values(unique) == [k \in DOMAIN unique |-> unique[k].job]

InitDedup ==
  /\ keys \in KeyConfigs
  /\ down = {}
  /\ postings = DedupPool
  /\ InitStore
  /\ gid = NoCall
  /\ flt = NoFilter
  /\ files = NoFiles
  /\ scrape = NoScrape
  /\ \E variant \in DedupVariants :
       \E muse_jobs \in SeqsUpTo(MuseJobs(variant), MaxFetched),
          adzuna_jobs \in AdzunaLists(variant, keys) :
         dedupe = [pc |-> "fetched", variant |-> variant,
                   muse_jobs |-> muse_jobs, adzuna_jobs |-> adzuna_jobs,
                   all_jobs |-> <<>>, i |-> 0, unique |-> <<>>, ret |-> None]

\* all_jobs = muse_jobs + adzuna_jobs in scrape_all; the script has appended
\* the Adzuna jobs to all_jobs first and those of The Muse after them.
\* unique = {}
Combine ==
  /\ dedupe.pc = "fetched"
  /\ dedupe' = [dedupe EXCEPT
       !.pc = "loop",
       !.all_jobs = IF dedupe.variant = "scrape_all"
                    THEN dedupe.muse_jobs \o dedupe.adzuna_jobs
                    ELSE dedupe.adzuna_jobs \o dedupe.muse_jobs,
       !.i = 1,
       !.unique = <<>>]
  /\ UNCHANGED <<agent_vars, gid, flt, files, scrape>>

\* one iteration of "for job in all_jobs"
DedupStep ==
  /\ dedupe.pc = "loop"
  /\ dedupe.i <= Len(dedupe.all_jobs)
  /\ dedupe' = [dedupe EXCEPT
       !.unique = Remember(dedupe.unique, dedupe.all_jobs[dedupe.i]),
       !.i = dedupe.i + 1]
  /\ UNCHANGED <<agent_vars, gid, flt, files, scrape>>

\* final_jobs = list(unique.values()), returned by scrape_all; the script
\* dumps the list into daily_jobs.json
DedupReturn ==
  /\ dedupe.pc = "loop"
  /\ dedupe.i > Len(dedupe.all_jobs)
  /\ dedupe' = [dedupe EXCEPT !.pc = "done", !.ret = Values(dedupe.unique)]
  /\ files' = IF dedupe.variant = "script"
              THEN [files EXCEPT !.daily = Values(dedupe.unique)]
              ELSE files
  /\ UNCHANGED <<agent_vars, gid, flt, scrape>>

NextDedup == Combine \/ DedupStep \/ DedupReturn

SpecDedup == InitDedup /\ [][NextDedup]_vars

\* ================================================================== claims
Frame == run["agent1"]

Seen == hist["agent1"]

Done == Frame.pc = "done"

Range(seq) == {seq[i] : i \in DOMAIN seq}

\* the identity the agent gives a job
JobIdOf(job) == GenerateJobId(job, job.source)

IdsOf(seq) == {JobIdOf(seq[i]) : i \in DOMAIN seq}

LastRun == scrape_runs[Len(scrape_runs)]

\* the entries of raw whose identity is neither in seen nor earlier in raw
RECURSIVE FirstNew(_, _)
FirstNew(raw, seen) ==
  IF raw = <<>> THEN <<>>
  ELSE IF JobIdOf(Head(raw)) \in seen THEN FirstNew(Tail(raw), seen)
  ELSE <<Head(raw)>> \o FirstNew(Tail(raw), seen \cup {JobIdOf(Head(raw))})

RECURSIVE IsSubseq(_, _)
IsSubseq(s, t) ==
  IF s = <<>> THEN TRUE
  ELSE IF t = <<>> THEN FALSE
  ELSE IF Head(s) = Head(t) THEN IsSubseq(Tail(s), Tail(t))
  ELSE IsSubseq(s, Tail(t))

\* C1: a completed pass returns as new no job whose identity the catalog held
\* when the pass started; from an empty catalog it reports the number of
\* distinct identities it fetched; a pass that fetches what the pass before it
\* fetched, or only identities the catalog holds, reports 0 new jobs and leaves
\* the catalog as it was.
C1_AdmittedAtMostOnce ==
  Done =>
    /\ \A i \in DOMAIN Frame.summary.new_jobs :
         JobIdOf(Frame.summary.new_jobs[i]) \notin JobIds(Seen.start_jobs)
    /\ (Seen.start_jobs = {} =>
          Frame.summary.new_jobs_count = Cardinality(IdsOf(Seen.raw)))
    /\ (last_raw.valid /\ Seen.raw = last_raw.raw =>
          /\ Frame.summary.new_jobs_count = 0
          /\ LastRun.new_jobs = 0
          /\ jobs = Seen.start_jobs)
    /\ (IdsOf(Seen.raw) \subseteq JobIds(Seen.start_jobs) =>
          /\ Frame.summary.new_jobs_count = 0
          /\ LastRun.new_jobs = 0)

\* a second pass has fetched the two entries the first pass fetched
C1_Witness ==
  /\ Done
  /\ last_raw.valid
  /\ Seen.raw = last_raw.raw
  /\ Len(Seen.raw) = MaxRaw
  /\ Cardinality(jobs) = MaxRaw
  /\ Frame.summary.new_jobs_count = 0

Running == {"jsearch", "adzuna", "google", "usajobs", "remotive", "check", "save"}

\* the calls of one pass over n query terms: every board for every term
AllCalls(n) ==
  [k \in 1..(n * Len(Adapters)) |->
     <<((k - 1) \div Len(Adapters)) + 1, Adapters[((k - 1) % Len(Adapters)) + 1]>>]

C2_LogMatchesPasses ==
  Len(scrape_runs) = IF Frame.pc \in {"idle", "done"} THEN now ELSE now - 1

C2_Step ==
  LET f == run["agent1"]
      g == run'["agent1"]
  IN /\ \A i \in DOMAIN scrape_runs :
          i \in DOMAIN scrape_runs' /\ scrape_runs'[i] = scrape_runs[i]
     /\ (scrape_runs' # scrape_runs =>
          /\ f.pc = "finalize" /\ g.pc = "done"
          /\ Len(scrape_runs') = Len(scrape_runs) + 1
          /\ f.t = Len(f.job_titles)
          /\ Seen.calls = AllCalls(Len(Seen.job_titles))
          /\ IdsOf(f.all_new_jobs) \subseteq JobIds(jobs)
          /\ IdsOf(Seen.raw) \subseteq JobIds(jobs))
     /\ (f.pc = "finalize" /\ g.pc # "finalize" => scrape_runs' # scrape_runs)
     /\ (g.pc \in Running => f.pc \in Running \cup {"idle"})
     /\ (g.pc = "finalize" => f.pc \in Running \cup {"idle", "finalize"})
     /\ (g.pc = "done" => f.pc \in {"finalize", "done"})
     /\ (g.pc = "idle" => f.pc \in {"done", "idle"})

\* C2: a pass goes idle, running, finalizing, idle; it writes its one run record
\* in the step that ends it, after every query term went to every board and
\* every admit is in the catalog; the run log only grows, by one record per
\* completed pass, and no record once written changes.
C2_OneRecordPerPass == [][C2_Step]_vars /\ []C2_LogMatchesPasses

\* two passes are complete and the second admitted nothing
C2_Witness ==
  /\ Done
  /\ Len(scrape_runs) = MaxRuns
  /\ LastRun.new_jobs = 0
  /\ LastRun.jobs_found > 0
  /\ scrape_runs[1].new_jobs > 0

\* C3: a pass never ends in an exception of an adapter; with a board out of
\* service it still sends every query term to every board, and every entry the
\* other boards return is in the catalog at the end, as a new job of this pass
\* unless the catalog held its identity before.
C3_OutageDoesNotAbort ==
  /\ Frame.pc # "crashed"
  /\ (Frame.pc \in {"finalize", "done"} =>
        Seen.calls = AllCalls(Len(Seen.job_titles)))
  /\ (Done =>
        \A i \in DOMAIN Seen.raw :
          /\ \E r \in jobs :
               /\ r.title = Seen.raw[i].title
               /\ r.company = Seen.raw[i].company
               /\ r.source = Seen.raw[i].source
          /\ (JobIdOf(Seen.raw[i]) \notin JobIds(Seen.start_jobs) =>
                JobIdOf(Seen.raw[i]) \in IdsOf(Frame.summary.new_jobs)))

\* JSearch has its key and fails on every call; the pass admitted jobs of other
\* boards for both of its query terms
C3_Witness ==
  /\ Done
  /\ keys.jsearch_api_key
  /\ down = {"jsearch"}
  /\ Len(Seen.job_titles) = MaxQueries
  /\ Len(Frame.summary.new_jobs) >= 2
  /\ \E r1 \in jobs, r2 \in jobs : r1.search_query # r2.search_query

\* every board is without credentials or out of service
NoWorkingSource ==
  \A k \in DOMAIN Adapters :
    ~HasCredentials(Adapters[k], keys) \/ Adapters[k] \in down

\* C4: with no working source the pass does not end in an exception; it
\* completes with one run record of 0 jobs found, 0 new jobs and as many queries
\* processed as terms were given, and returns no new job.
C4_TotalOutageCompletes ==
  NoWorkingSource =>
    /\ Frame.pc # "crashed"
    /\ (Done =>
          /\ Len(scrape_runs) = 1
          /\ LastRun.jobs_found = 0
          /\ LastRun.new_jobs = 0
          /\ LastRun.queries_processed = Len(Seen.job_titles)
          /\ Frame.summary.new_jobs = <<>>
          /\ Frame.summary.new_jobs_count = 0
          /\ jobs = {})

\* three boards are skipped, two fail, and the pass over two terms is complete
C4_Witness ==
  /\ NoWorkingSource
  /\ Done
  /\ ~keys.jsearch_api_key
  /\ Len(Seen.job_titles) = MaxQueries
  /\ LastRun.queries_processed = MaxQueries

\* equal, letter case aside
FoldEq(u, v) ==
  \/ u = None /\ v = None
  \/ u # None /\ v # None /\ Lower(u) = Lower(v)

\* C5: jobs whose title, company and source are equal up to letter case get
\* the same identity.
C5_CaseInsensitiveIdentity ==
  (/\ gid.pc = "done"
   /\ FoldEq(gid.job1.title, gid.job2.title)
   /\ FoldEq(gid.job1.company, gid.job2.company)
   /\ FoldEq(gid.source1, gid.source2))
    => gid.id1 = gid.id2

SameTriple ==
  /\ gid.job1.title = gid.job2.title
  /\ gid.job1.company = gid.job2.company
  /\ gid.source1 = gid.source2

\* C6: the identity is a function of title, company and source: two jobs with
\* the same three get the same identity, whatever their location, salary, URL
\* and posted date.
C6_IdentityFromTriple ==
  (gid.pc = "done" /\ SameTriple) => gid.id1 = gid.id2

\* two jobs of one title, company and source differ in another field
C6_Witness ==
  /\ gid.pc = "done"
  /\ SameTriple
  /\ gid.job1.location # gid.job2.location
  /\ gid.id1 = gid.id2

SameListing(e1, e2) == e1.title = e2.title /\ e1.company = e2.company

InCatalog(e) ==
  \E r \in jobs :
    r.title = e.title /\ r.company = e.company /\ r.source = e.source

\* C7: entries of one title and company from different boards are both in the
\* catalog after the pass; when the pass fetched just these two and the catalog
\* held neither, it returns 2 new jobs and the catalog has 2 more rows.
C7_BothSourcesAdmitted ==
  Done =>
    /\ \A i \in DOMAIN Seen.raw, k \in DOMAIN Seen.raw :
         (SameListing(Seen.raw[i], Seen.raw[k])
            /\ Seen.raw[i].source # Seen.raw[k].source)
           => InCatalog(Seen.raw[i]) /\ InCatalog(Seen.raw[k])
    /\ (/\ Len(Seen.raw) = 2
        /\ SameListing(Seen.raw[1], Seen.raw[2])
        /\ Seen.raw[1].source # Seen.raw[2].source
        /\ ~\E r \in Seen.start_jobs :
              SameListing(r, Seen.raw[1]) /\ r.source \in {Seen.raw[1].source, Seen.raw[2].source})
         => /\ Len(Frame.summary.new_jobs) = 2
            /\ Frame.summary.new_jobs_count = 2
            /\ Cardinality(jobs) = Cardinality(Seen.start_jobs) + 2

\* two boards returned the same title and company and both were admitted
C7_Witness ==
  /\ Done
  /\ Len(Seen.raw) = 2
  /\ SameListing(Seen.raw[1], Seen.raw[2])
  /\ Seen.raw[1].source # Seen.raw[2].source
  /\ Len(Frame.summary.new_jobs) = 2
  /\ Cardinality(jobs) = 2

\* C8: the new jobs of a pass are the first entries of each identity the
\* catalog did not hold, in the order fetched: no identity twice; new_jobs
\* counts them, jobs_found counts every entry fetched.
C8_FirstOccurrenceOnly ==
  Done =>
    /\ Frame.summary.new_jobs = FirstNew(Seen.raw, JobIds(Seen.start_jobs))
    /\ \A i \in DOMAIN Frame.summary.new_jobs, k \in DOMAIN Frame.summary.new_jobs :
         i # k => JobIdOf(Frame.summary.new_jobs[i]) # JobIdOf(Frame.summary.new_jobs[k])
    /\ LastRun.new_jobs = Cardinality(IdsOf(Seen.raw) \ JobIds(Seen.start_jobs))
    /\ LastRun.new_jobs = Frame.summary.new_jobs_count
    /\ LastRun.jobs_found = Len(Seen.raw)
    /\ Frame.summary.total_jobs_found = Len(Seen.raw)

\* one entry was returned twice
C8_Witness ==
  /\ Done
  /\ Len(Seen.raw) = 2
  /\ Seen.raw[1] = Seen.raw[2]
  /\ LastRun.new_jobs = 1
  /\ LastRun.jobs_found = 2
  /\ Len(Frame.summary.new_jobs) = 1

\* the rule of the filter stage, on the lower-cased title and description
ShouldPass(job) ==
  LET text == Lower(job.title \o <<" ">> \o job.description)
  IN /\ \E kw \in Range(include_keywords) : Contains(text, kw)
     /\ \A kw \in Range(exclude_keywords) : ~Contains(text, kw)

\* C9: a job is in the output of the filter stage exactly if its lower-cased
\* title and description contain an include keyword and no exclude keyword; a
\* job titled "Junior Product Manager" is never in the output.
C9_FilterRule ==
  flt.pc = "done" =>
    /\ \A i \in DOMAIN flt.given :
         (flt.given[i] \in Range(flt.ret)) <=> ShouldPass(flt.given[i])
    /\ \A k \in DOMAIN flt.ret : flt.ret[k].title # JuniorProductManager

\* a junior product manager was dropped and another job kept
C9_Witness ==
  /\ flt.pc = "done"
  /\ \E i \in DOMAIN flt.given : flt.given[i].title = JuniorProductManager
  /\ Len(flt.ret) = 1

\* C10: the output of the filter stage is a subsequence of its input, and the
\* input list and its jobs are as they were handed over.
C10_OrderPreserving ==
  flt.pc # "none" =>
    /\ flt.jobs = flt.given
    /\ IsSubseq(flt.filtered, flt.given)
    /\ (flt.pc = "done" => flt.ret = flt.filtered /\ IsSubseq(flt.ret, flt.given))

\* two different jobs passed
C10_Witness ==
  /\ flt.pc = "done"
  /\ Len(flt.ret) = 2
  /\ flt.ret[1] # flt.ret[2]
  /\ flt.jobs = flt.given

\* C11: a source adapter never hands an exception to its caller: whether the
\* request timed out, failed in transport, had an error status or could not be
\* parsed, the call ends and returns a list.
C11_AdaptersNeverRaise ==
  /\ scrape.pc # "crashed"
  /\ (scrape.pc = "done" =>
        /\ ~scrape.ret.raised
        /\ scrape.ret.jobs \in Seq(Range(scrape.ret.jobs))
        /\ (scrape.failed /\ scrape.adapter \notin CombinedAdapters =>
              scrape.ret.jobs = <<>>))

\* the request of scrape_usa_jobs raised and the call returned
C11_Witness ==
  /\ scrape.pc = "done"
  /\ scrape.adapter = "usajobs"
  /\ scrape.resp.raises
  /\ scrape.failed
  /\ ~scrape.ret.raised

\* C12: what a board adapter returns tells how its call ended: a call skipped
\* for want of credentials, a call whose request or parse failed and a fetch that
\* succeeded return three different values, so no call that ended in another of
\* the three ways returns what this call returned; none of them raises.
C12_SkippedIsTagged ==
  (scrape.pc = "done" /\ scrape.adapter \notin CombinedAdapters) =>
    /\ ~scrape.ret.raised
    /\ \A keys2 \in KeyConfigs, resp2 \in AnyResponse(postings, MaxRaw) :
         Outcome(scrape.adapter, keys2, resp2)
             # Outcome(scrape.adapter, keys, scrape.resp)
           => Scrape(scrape.adapter, keys2, scrape.job_title, resp2) # scrape.ret

C13_Aborted ==
  Seen.store_failed =>
    /\ Frame.pc = "crashed"
    /\ Frame.summary = <<>>
    /\ scrape_runs = Seen.start_runs

C13_Step ==
  run["agent1"].pc = "crashed" =>
    /\ run'["agent1"].pc \in {"crashed", "idle"}
    /\ run'["agent1"].summary = <<>>
    /\ scrape_runs' = scrape_runs

\* C13: once a call of the store has raised in the duplicate check, in save_job
\* or in the insert of the run record, the pass is over: the exception leaves
\* run_daily_scrape, no summary is returned, and the run log is and stays what
\* it was when the pass started.
C13_StoreFailureIsFatal == [][C13_Step]_vars /\ []C13_Aborted

\* the store failed after the pass had admitted a job
C13_Witness ==
  /\ Seen.store_failed
  /\ Frame.pc = "crashed"
  /\ Len(Frame.all_new_jobs) >= 1
  /\ Cardinality(jobs) > Cardinality(Seen.start_jobs)

RECURSIVE SumNewJobs(_)
SumNewJobs(log) ==
  IF log = <<>> THEN 0 ELSE Head(log).new_jobs + SumNewJobs(Tail(log))

\* C14: whenever no pass is in progress, the catalog holds as many jobs as the
\* run records together count as new, also after a pass the store aborted.
C14_CatalogMatchesLog ==
  Frame.pc = "idle" => Cardinality(jobs) = SumNewJobs(scrape_runs)

\* no title and no company: absent, null or the empty string
BlankJob(job) ==
  /\ job.title \in {Missing, None, <<>>}
  /\ job.company \in {Missing, None, <<>>}

\* C15: no job without title and company is admitted: none is in the catalog,
\* none is among the new jobs of a pass.
C15_BlankNeverAdmitted ==
  /\ \A r \in jobs : ~BlankJob(r)
  /\ \A i \in DOMAIN Frame.all_new_jobs : ~BlankJob(Frame.all_new_jobs[i])
  /\ (Done => \A i \in DOMAIN Frame.summary.new_jobs :
                ~BlankJob(Frame.summary.new_jobs[i]))

\* the salary and the posted date of a job dict; Missing where it has no such key
SalaryOf(job) == IF "salary" \in DOMAIN job THEN job.salary ELSE Missing

PostedOf(job) ==
  IF "posted" \in DOMAIN job THEN job.posted
  ELSE IF "posted_date" \in DOMAIN job THEN job.posted_date
  ELSE Missing

\* C16: no job an adapter returns has a null or absent salary or posted date,
\* and when the entries received give neither, both fields of every job
\* returned are "Not specified".
C16_MissingCoerced ==
  scrape.pc = "done" =>
    /\ \A i \in DOMAIN scrape.ret.jobs :
         /\ SalaryOf(scrape.ret.jobs[i]) \notin {None, Missing}
         /\ PostedOf(scrape.ret.jobs[i]) \notin {None, Missing}
    /\ ((\A k \in DOMAIN scrape.raw :
           /\ scrape.raw[k].salary \in {None, Missing}
           /\ scrape.raw[k].posted \in {None, Missing})
         => \A i \in DOMAIN scrape.ret.jobs :
              /\ SalaryOf(scrape.ret.jobs[i]) = NotSpecified
              /\ PostedOf(scrape.ret.jobs[i]) = NotSpecified)

\* C17: the run record of a completed pass counts as found every entry the
\* boards returned, as new the jobs the pass returned and added to the catalog,
\* as queries the terms it was given, and names exactly the sources of the
\* entries returned, duplicates included; new_jobs is at most jobs_found.
C17_RunRecordAccurate ==
  Done =>
    /\ Len(scrape_runs) = Len(Seen.start_runs) + 1
    /\ LastRun.jobs_found = Len(Seen.raw)
    /\ LastRun.new_jobs = Len(Frame.summary.new_jobs)
    /\ LastRun.new_jobs = Cardinality(jobs \ Seen.start_jobs)
    /\ Seen.start_jobs \subseteq jobs
    /\ LastRun.queries_processed = Len(Seen.job_titles)
    /\ LastRun.sources_scraped = {Seen.raw[i].source : i \in DOMAIN Seen.raw}
    /\ LastRun.new_jobs <= LastRun.jobs_found

\* the second pass fetched entries of two boards, all of them known
C17_Witness ==
  /\ Done
  /\ Len(scrape_runs) = MaxRuns
  /\ LastRun.jobs_found = 2
  /\ LastRun.new_jobs = 0
  /\ Cardinality(LastRun.sources_scraped) = 2

\* the jobs a pass has counted as new so far
NewOf(p) ==
  IF run[p].pc = "done" THEN run[p].summary.new_jobs ELSE run[p].all_new_jobs

C18_OneRowPerIdentity ==
  \A r1 \in jobs, r2 \in jobs : r1.job_id = r2.job_id => r1 = r2

C18_Step ==
  /\ jobs \subseteq jobs'
  /\ \A p \in Agents :
       (/\ run[p].pc = "save"
        /\ run'[p] # run[p]
        /\ IsDuplicate(jobs, JobIdOf(run[p].all_jobs[run[p].j])))
         => jobs' = jobs /\ run'[p].pc # "crashed"

\* C18: the catalog has at most one row per identity; no step changes or
\* removes a row; save_job for an identity the catalog holds leaves the catalog
\* as it is and does not raise.
C18_InsertIfAbsent == [][C18_Step]_vars /\ []C18_OneRowPerIdentity

\* save_job ran for a job another pass had saved under another query term:
\* the one row is the other pass's
C18_Witness ==
  /\ Cardinality(jobs) = 1
  /\ \E i \in DOMAIN NewOf("agent2") :
       \E r \in jobs :
         /\ r.job_id = JobIdOf(NewOf("agent2")[i])
         /\ r.search_query # hist["agent2"].job_titles[1]
         /\ JobIdOf(NewOf("agent2")[i]) \in IdsOf(NewOf("agent1"))

\* C19: of two passes at work on one store, at most one counts an identity as
\* new.
C19_CheckAndAdmitAtomic ==
  IdsOf(NewOf("agent1")) \cap IdsOf(NewOf("agent2")) = {}

\* C20: two jobs that differ in title, company or source get different
\* identities: where the title ends and the company begins counts.
C20_DistinctTriplesDistinctIds ==
  (gid.pc = "done" /\ ~SameTriple) => gid.id1 # gid.id2

\* the key of the claim: title, "_" and company, lower-cased
TitleCompany(job) == Lower(Str(job.title) \o <<"_">> \o Str(job.company))

\* what was fetched, in fetch order: scrape_all fetches The Muse first, the
\* script Adzuna
Fetched ==
  IF dedupe.variant = "scrape_all" THEN dedupe.muse_jobs \o dedupe.adzuna_jobs
  ELSE dedupe.adzuna_jobs \o dedupe.muse_jobs

\* the first job of each key, in the order of the list
RECURSIVE FirstByKey(_, _)
FirstByKey(list, seen) ==
  IF list = <<>> THEN <<>>
  ELSE IF TitleCompany(Head(list)) \in seen THEN FirstByKey(Tail(list), seen)
  ELSE <<Head(list)>>
         \o FirstByKey(Tail(list), seen \cup {TitleCompany(Head(list))})

\* C21: scrape_all and the standalone script return at most one job per
\* lower-cased "title_company" key, whatever its source: the first fetched of
\* each key, in fetch order; no key that was fetched is lost; a posting both
\* providers returned is there once, from the provider fetched first.
C21_DedupByTitleCompany ==
  dedupe.pc = "done" =>
    /\ \A i \in DOMAIN dedupe.ret, k \in DOMAIN dedupe.ret :
         i # k => TitleCompany(dedupe.ret[i]) # TitleCompany(dedupe.ret[k])
    /\ dedupe.ret = FirstByKey(Fetched, {})
    /\ IsSubseq(dedupe.ret, Fetched)
    /\ {TitleCompany(Fetched[i]) : i \in DOMAIN Fetched}
         = {TitleCompany(dedupe.ret[i]) : i \in DOMAIN dedupe.ret}
    /\ \A m \in DOMAIN dedupe.muse_jobs, a \in DOMAIN dedupe.adzuna_jobs :
         TitleCompany(dedupe.muse_jobs[m]) = TitleCompany(dedupe.adzuna_jobs[a])
           => \A i \in DOMAIN dedupe.ret :
                TitleCompany(dedupe.ret[i]) = TitleCompany(dedupe.muse_jobs[m])
                  => dedupe.ret[i].source =
                       IF dedupe.variant = "scrape_all" THEN SourceMuse
                       ELSE SourceAdzuna
    /\ (dedupe.variant = "script" => files.daily = dedupe.ret)

\* The Muse returned a posting and Adzuna the same in capitals, beside
\* another one: scrape_all returns the posting of The Muse and the other
C21_Witness ==
  /\ dedupe.pc = "done"
  /\ dedupe.variant = "scrape_all"
  /\ Len(dedupe.muse_jobs) = 1
  /\ Len(dedupe.adzuna_jobs) = 2
  /\ dedupe.muse_jobs[1].title # dedupe.adzuna_jobs[1].title
  /\ TitleCompany(dedupe.muse_jobs[1]) = TitleCompany(dedupe.adzuna_jobs[1])
  /\ Len(dedupe.ret) = 2
  /\ dedupe.ret[1].source = SourceMuse
  /\ dedupe.ret[2].source = SourceAdzuna

====
